---- MODULE Spec2Model ----
(***************************************************************************)
(* PaddleJobClient (sdk/python/kubeflow/training/api/paddle_job_client.py) *)
(* as a state machine: one client call at a time, from the call to the     *)
(* return or the raise that ends it.  The Kubernetes API server is the     *)
(* environment: every API call of the client draws its result from a       *)
(* small set of responses.                                                 *)
(***************************************************************************)
EXTENDS Integers, Sequences, FiniteSets, TLC

\* ------------------------------------------------------------------ bounds
MaxTimeout == 5
MaxInterval == 3
MaxPods == 3
MaxReplicas == 3

\* ------------------------------------------------------- job documents
\* A condition of status.conditions; hasType = FALSE is an entry without a
\* "type" key, for which c.get("type", "") is "".
Cond(t) == [hasType |-> TRUE, type |-> t]
NoTypeCond == [hasType |-> FALSE, type |-> ""]

\* What the local variable paddlejob can hold: nothing yet (tag "Unbound"),
\* None, or a dict.  keys: the dict has keys other than "status" (metadata,
\* spec, ...); status: "absent" or "dict"; conditions: "absent", "null" or
\* "list" (with items).
Doc(tag, keys, status, conditions, items) ==
    [tag |-> tag, keys |-> keys, status |-> status,
     conditions |-> conditions, items |-> items]
Unbound == Doc("Unbound", FALSE, "absent", "absent", <<>>)
NoneJob == Doc("None", FALSE, "absent", "absent", <<>>)
EmptyDict == Doc("dict", FALSE, "absent", "absent", <<>>)
NoStatus == Doc("dict", TRUE, "absent", "absent", <<>>)
NoConditions == Doc("dict", TRUE, "dict", "absent", <<>>)
NullConditions == Doc("dict", TRUE, "dict", "null", <<>>)
JobWith(items) == Doc("dict", TRUE, "dict", "list", items)

\* The job documents the API server answers a Get with.
Jobs ==
    {NoneJob, EmptyDict, NoStatus, NoConditions, NullConditions,
     JobWith(<<>>),
     JobWith(<<NoTypeCond>>),
     JobWith(<<Cond("Created")>>),
     JobWith(<<Cond("Created"), Cond("Running")>>),
     JobWith(<<Cond("Running"), Cond("Succeeded")>>),
     JobWith(<<Cond("Succeeded"), Cond("Running")>>),
     JobWith(<<Cond("Running"), Cond("Failed")>>)}

\* The result of thread.get(APISERVER_TIMEOUT) on the asynchronous request.
Raw(tag, job) == [tag |-> tag, job |-> job]
GetFailures == {"multiprocessing.TimeoutError", "ApiException", "Exception"}
RawResults ==
    {Raw("ok", j) : j \in Jobs} \cup {Raw(f, NoneJob) : f \in GetFailures}

\* ----------------------------------------------------------- outcomes
\* How a call ended.  obj: the job object a return or an error carries
\* (<<>> for none); str: a returned string; names: a returned set.
Outcome(kind, exc, msg, obj, str, names, isNone) ==
    [kind |-> kind, exc |-> exc, msg |-> msg, obj |-> obj, str |-> str,
     names |-> names, isNone |-> isNone]
Pending == Outcome("pending", "", "", <<>>, "", {}, FALSE)
ReturnNone == Outcome("return", "", "", <<>>, "", {}, TRUE)
ReturnJob(j) == Outcome("return", "", "", <<j>>, "", {}, FALSE)
ReturnStr(s) == Outcome("return", "", "", <<>>, s, {}, FALSE)
ReturnNames(S) == Outcome("return", "", "", <<>>, "", S, FALSE)
Raise(exc, msg) == Outcome("raise", exc, msg, <<>>, "", {}, FALSE)
RaiseWith(exc, msg, j) == Outcome("raise", exc, msg, <<j>>, "", {}, FALSE)

\* -------------------------------------------------------------- get()
\* PaddleJobClient.get(name, namespace) with a name and watch=False.
Get(raw) ==
    CASE raw.tag = "ok" -> ReturnJob(raw.job)
      [] raw.tag = "multiprocessing.TimeoutError" ->
            Raise("RuntimeError", "Timeout trying to get PaddleJob.")
      [] raw.tag = "ApiException" ->
            Raise("RuntimeError",
                  "Exception when calling CustomObjectsApi->get_namespaced_custom_object")
      [] OTHER ->
            Raise("RuntimeError", "There was a problem to get PaddleJob")

\* ------------------------------------------------ wait_for_condition
\* round(x) of Python 3 on the quotient t / p of two positive numbers: the
\* nearest integer, a tie going to the even one.
PyRound(t, p) ==
    LET q == t \div p
        r == t % p
    IN  IF 2 * r < p THEN q
        ELSE IF 2 * r > p THEN q + 1
        ELSE IF q % 2 = 0 THEN q ELSE q + 1

\* Attempts with the quotient cut off instead of rounded.
AttemptsFloor(t, p) == t \div p

\* range(round(timeout_seconds / polling_interval)): the number of
\* iterations of the polling loop.
Attempts(t, p) == PyRound(t, p)

\* if paddlejob: None and the empty dict are false.
Truthy(job) ==
    job.tag = "dict" /\ (job.keys \/ job.status # "absent")

\* conditions = paddlejob.get("status", {}).get("conditions", [])
\* conditions = conditions or []
Conditions(job) ==
    IF job.status = "dict" /\ job.conditions = "list" THEN job.items ELSE <<>>

\* c.get("type", "")
TypeOf(c) == IF c.hasType THEN c.type ELSE ""

\* Matches looking at the last condition only.
MatchesLast(job, expected) ==
    /\ Len(Conditions(job)) > 0
    /\ TypeOf(Conditions(job)[Len(Conditions(job))]) \in expected

\* for c in conditions: if c.get("type", "") in expected_condition
Matches(job, expected) ==
    \E k \in 1..Len(Conditions(job)) : TypeOf(Conditions(job)[k]) \in expected

\* The raise after the loop: its second argument reads the local
\* paddlejob, which no statement has bound when the loop body never ran.
TimeoutError(job) ==
    IF job.tag = "Unbound"
    THEN Raise("UnboundLocalError", "local variable 'paddlejob' referenced before assignment")
    ELSE RaiseWith("RuntimeError", "Timeout waiting for PaddleJob", job)

\* ------------------------------------------------------ get_job_status
\* LastConditionType with conditions replaced by [] when null and "" returned
\* when there is no condition.
LastConditionTypeOrDefault(job) ==
    IF job.tag # "dict"
    THEN Raise("AttributeError", "'NoneType' object has no attribute 'get'")
    ELSE IF Len(Conditions(job)) > 0
    THEN ReturnStr(TypeOf(Conditions(job)[Len(Conditions(job))]))
    ELSE ReturnStr("")

\* last_condition = paddlejob.get("status", {}).get("conditions", [])[-1]
\* return last_condition.get("type", "")
\* Nothing here replaces a null conditions by [], and [-1] of an empty list
\* or of None raises.
LastConditionType(job) ==
    IF job.tag # "dict"
    THEN Raise("AttributeError", "'NoneType' object has no attribute 'get'")
    ELSE IF job.status = "dict" /\ job.conditions = "null"
    THEN Raise("TypeError", "'NoneType' object is not subscriptable")
    ELSE IF job.status = "dict" /\ job.conditions = "list" /\ Len(job.items) > 0
    THEN ReturnStr(TypeOf(job.items[Len(job.items)]))
    ELSE Raise("IndexError", "list index out of range")

\* get_job_status(name, namespace)
GetJobStatus(raw) ==
    IF Get(raw).kind = "raise" THEN Get(raw)
    ELSE LastConditionType(Get(raw).obj[1])

\* ------------------------------------------------------- get_pod_names
\* An item of the pod list: metadata may be missing, and so may its name.
Pod(hasMeta, name) == [hasMeta |-> hasMeta, name |-> name]
PodNameUniverse == {"job-master-0", "job-worker-0", "job-worker-1"}
PodItems ==
    {Pod(TRUE, n) : n \in PodNameUniverse} \cup {Pod(FALSE, ""), Pod(TRUE, "")}
RECURSIVE SeqsUpTo(_, _)
SeqsUpTo(S, n) ==
    IF n = 0 THEN {<<>>}
    ELSE SeqsUpTo(S, n - 1)
         \cup {Append(q, x) : q \in {r \in SeqsUpTo(S, n - 1) : Len(r) = n - 1}, x \in S}

\* The result of core_api.list_namespaced_pod.
Listing(tag, items) == [tag |-> tag, items |-> items]
ListResults ==
    {Listing("ok", items) : items \in SeqsUpTo(PodItems, MaxPods)}
    \cup {Listing("ApiException", <<>>)}

\* for pod in resp.items: if pod.metadata and pod.metadata.name: append
CollectNames(items) ==
    {items[k].name : k \in {i \in 1..Len(items) : items[i].hasMeta /\ items[i].name # ""}}

\* GetPodNames raising where the code only warns.
GetPodNamesStrict(listing) ==
    IF listing.tag = "ApiException"
    THEN Raise("RuntimeError",
               "Exception when calling CoreV1Api->read_namespaced_pod_log")
    ELSE IF CollectNames(listing.items) = {}
    THEN Raise("RuntimeError", "Not found Pods of the PaddleJob")
    ELSE ReturnNames(CollectNames(listing.items))

\* get_pod_names(name, namespace, master, replica_type, replica_index):
\* the set of the names, or (after a warning) no return value.
GetPodNames(listing) ==
    IF listing.tag = "ApiException"
    THEN Raise("RuntimeError",
               "Exception when calling CoreV1Api->read_namespaced_pod_log")
    ELSE IF CollectNames(listing.items) = {} THEN ReturnNone
    ELSE ReturnNames(CollectNames(listing.items))

\* logging.warning("Not found Pods ..."): once, when no name was collected.
Warned(listing) ==
    IF listing.tag = "ok" /\ CollectNames(listing.items) = {} THEN 1 ELSE 0

\* ------------------------------------------------------------ get_logs
\* The result of core_api.read_namespaced_pod_log for one pod.
ReadResults == {"ok", "ApiException"}

\* else: raise RuntimeError("Not found Pods of the PaddleJob ...")
NoPodsError == Raise("RuntimeError", "Not found Pods of the PaddleJob")

\* except ApiException: raise RuntimeError(...)
ReadError ==
    Raise("RuntimeError",
          "Exception when calling CoreV1Api->read_namespaced_pod_log")

\* ------------------------------------------ create_paddlejob_from_func
\* num_worker_replicas: None by default, else the number given.
Replicas(isNone, n) == [isNone |-> isNone, n |-> n]
ReplicaArgs == {Replicas(TRUE, 0)} \cup {Replicas(FALSE, n) : n \in 0..MaxReplicas}

\* paddle_replica_specs as the role -> replicas mapping that is submitted:
\* "Master" always, "Worker" unless num_worker_replicas is 1.
ReplicaSpecs(n) ==
    IF n # 1
    THEN [role \in {"Master", "Worker"} |-> IF role = "Master" THEN 1 ELSE n]
    ELSE [role \in {"Master"} |-> 1]
NoSpecs == [role \in {} |-> 0]

\* create(paddlejob, namespace)
CreateResults == {"ok", "ApiException"}
Create(res) ==
    IF res = "ApiException"
    THEN Raise("RuntimeError",
               "Exception when calling CustomObjectsApi->create_namespaced_custom_object")
    ELSE ReturnNone


ExpectedSets == {{"Succeeded"}, {"Running"}, {"Succeeded", "Failed"}}
CallbackReturns == {"None", "False"}

VARIABLES
    op,                  \* the client method called ("idle" before the call)
    pc,                  \* the position of the call
    raw_job,             \* the result of the last thread.get of a Get
    timeout_seconds,     \* argument of wait_for_job / wait_for_condition
    polling_interval,    \* argument of wait_for_job / wait_for_condition
    expected_condition,  \* argument of wait_for_condition
    status_callback,     \* TRUE when a status callback is supplied
    watch,               \* argument of wait_for_job
    remaining,           \* iterations of the for loop still to run
    paddlejob,           \* the local variable of wait_for_condition
    prev_job,            \* the object the Get before the last one returned
    gets,                \* Get calls issued
    ok_gets,             \* Get calls that returned an object
    truthy_gets,         \* Get calls that returned a true object
    sleeps,              \* time.sleep(polling_interval) calls completed
    slept,               \* seconds slept in total
    callbacks,           \* invocations of status_callback
    callback_arg,        \* the argument of the last invocation
    callback_ret,        \* the value the last invocation returned
    outcome,             \* how the call ended
    listing,             \* the result of list_namespaced_pod
    pod_names,           \* get_logs: the names get_pod_names returned
    unread,              \* get_logs: the names the loop has not reached
    reads,               \* pods whose log was requested, in order
    emitted,             \* pods whose log was written to the logger
    read_result,         \* the result of the last read_namespaced_pod_log
    warnings,            \* logging.warning calls
    num_worker_replicas, \* argument of create_paddlejob_from_func
    paddle_replica_specs,\* the replica specs of the job built
    submitted            \* create_namespaced_custom_object calls

waitVars ==
    <<timeout_seconds, polling_interval, expected_condition, status_callback,
      watch, remaining, paddlejob, prev_job, gets, ok_gets, truthy_gets,
      sleeps, slept, callbacks, callback_arg, callback_ret>>

podVars == <<listing, pod_names, unread, reads, emitted, read_result, warnings>>

createVars == <<num_worker_replicas, paddle_replica_specs, submitted>>

vars == <<op, pc, raw_job, waitVars, outcome, podVars, createVars>>

Init ==
    /\ op = "idle"
    /\ pc = "idle"
    /\ raw_job = Raw("none", Unbound)
    /\ timeout_seconds = 0
    /\ polling_interval = 0
    /\ expected_condition = {}
    /\ status_callback = FALSE
    /\ watch = FALSE
    /\ remaining = 0
    /\ paddlejob = Unbound
    /\ prev_job = Unbound
    /\ gets = 0
    /\ ok_gets = 0
    /\ truthy_gets = 0
    /\ sleeps = 0
    /\ slept = 0
    /\ callbacks = 0
    /\ callback_arg = Unbound
    /\ callback_ret = "None"
    /\ outcome = Pending
    /\ listing = Listing("none", <<>>)
    /\ pod_names = {}
    /\ unread = {}
    /\ reads = <<>>
    /\ emitted = <<>>
    /\ read_result = "none"
    /\ warnings = 0
    /\ num_worker_replicas = Replicas(TRUE, 0)
    /\ paddle_replica_specs = NoSpecs
    /\ submitted = 0

\* The head of the for loop: the next iteration, or the raise after it.
LoopHead(n) == IF n > 0 THEN "get" ELSE "raise"

\* Entering wait_for_condition with its arguments.
EnterWait(t, p, expected, cb) ==
    /\ timeout_seconds' = t
    /\ polling_interval' = p
    /\ expected_condition' = expected
    /\ status_callback' = cb
    /\ remaining' = Attempts(t, p)
    /\ pc' = LoopHead(Attempts(t, p))
    /\ UNCHANGED <<paddlejob, prev_job, gets, ok_gets, truthy_gets, sleeps,
                   slept, callbacks, callback_arg, callback_ret, outcome>>

\* wait_for_condition(name, expected_condition, namespace, timeout_seconds,
\* polling_interval, status_callback)
CallWaitForCondition ==
    /\ op = "idle"
    /\ op' = "wait_for_condition"
    /\ watch' = FALSE
    /\ \E t \in 1..MaxTimeout, p \in 1..MaxInterval,
          e \in ExpectedSets, cb \in BOOLEAN :
          EnterWait(t, p, e, cb)
    /\ UNCHANGED <<raw_job, podVars, createVars>>

\* JobFinished with "Running" taken for a final condition.
JobFinishedOrRunning == {"Succeeded", "Failed", "Running"}

\* The expected conditions wait_for_job passes on.
JobFinished == {"Succeeded", "Failed"}

\* wait_for_job(name, namespace, watch, timeout_seconds, polling_interval,
\* status_callback): with watch it hands over to paddlejob_watch and returns
\* None, otherwise it returns what wait_for_condition returns.
CallWaitForJob ==
    /\ op = "idle"
    /\ op' = "wait_for_job"
    /\ \E w \in BOOLEAN, t \in 1..MaxTimeout, p \in 1..MaxInterval,
          cb \in BOOLEAN :
          /\ watch' = w
          /\ IF w
             THEN /\ timeout_seconds' = t
                  /\ polling_interval' = p
                  /\ status_callback' = cb
                  /\ pc' = "watched"
                  /\ outcome' = ReturnNone
                  /\ UNCHANGED <<expected_condition, remaining, paddlejob,
                                 prev_job, gets, ok_gets, truthy_gets, sleeps,
                                 slept, callbacks, callback_arg, callback_ret>>
             ELSE EnterWait(t, p, JobFinished, cb)
    /\ UNCHANGED <<raw_job, podVars, createVars>>

\* PollStep with an error of get counted as one more attempt without a match.
PollStepSwallow(got, cb) ==
    IF got.kind = "raise"
    THEN [pc |-> "sleep", outcome |-> Pending, paddlejob |-> NoneJob]
    ELSE [pc |-> IF ~Truthy(got.obj[1]) THEN "sleep"
                 ELSE IF cb THEN "callback"
                 ELSE "inspect",
          outcome |-> Pending,
          paddlejob |-> got.obj[1]]

\* One Get of the loop, given what get() did (got) and whether a callback
\* is supplied: an error of get leaves the loop and the method at once; a
\* false object skips the callback and the scan of the conditions.
PollStep(got, cb) ==
    IF got.kind = "raise"
    THEN [pc |-> "get_failed", outcome |-> got, paddlejob |-> NoneJob]
    ELSE [pc |-> IF ~Truthy(got.obj[1]) THEN "sleep"
                 ELSE IF cb THEN "callback"
                 ELSE "inspect",
          outcome |-> Pending,
          paddlejob |-> got.obj[1]]

\* paddlejob = None; paddlejob = self.get(name, namespace=namespace)
PollGet ==
    /\ pc = "get"
    /\ \E raw \in RawResults :
          /\ raw_job' = raw
          /\ gets' = gets + 1
          /\ prev_job' = paddlejob
          /\ paddlejob' = PollStep(Get(raw), status_callback).paddlejob
          /\ outcome' = PollStep(Get(raw), status_callback).outcome
          /\ pc' = PollStep(Get(raw), status_callback).pc
          /\ ok_gets' = ok_gets + (IF raw.tag = "ok" THEN 1 ELSE 0)
          /\ truthy_gets' = truthy_gets
                + (IF raw.tag = "ok" /\ Truthy(raw.job) THEN 1 ELSE 0)
    /\ UNCHANGED <<op, timeout_seconds, polling_interval, expected_condition,
                   status_callback, watch, remaining, sleeps, slept, callbacks,
                   callback_arg, callback_ret>>
    /\ UNCHANGED <<podVars, createVars>>

\* AfterCallback with a false return value ending the poll.
AfterCallbackChecked(ret) == IF ret = "False" THEN "sleep" ELSE "inspect"

\* Where the loop goes once status_callback(paddlejob) has returned ret.
AfterCallback(ret) == "inspect"

\* if status_callback: status_callback(paddlejob)
PollCallback ==
    /\ pc = "callback"
    /\ \E ret \in CallbackReturns :
          /\ callback_ret' = ret
          /\ pc' = AfterCallback(ret)
    /\ callbacks' = callbacks + 1
    /\ callback_arg' = paddlejob
    /\ UNCHANGED <<op, timeout_seconds, polling_interval, expected_condition,
                   status_callback, watch, remaining, paddlejob, prev_job, gets,
                   ok_gets, truthy_gets, sleeps, slept, outcome>>
    /\ UNCHANGED <<raw_job, podVars, createVars>>

\* The scan of the conditions: return paddlejob on the first expected type.
PollInspect ==
    /\ pc = "inspect"
    /\ IF Matches(paddlejob, expected_condition)
       THEN /\ outcome' = ReturnJob(paddlejob)
            /\ pc' = "returned"
       ELSE /\ pc' = "sleep"
            /\ UNCHANGED outcome
    /\ UNCHANGED <<op, waitVars>>
    /\ UNCHANGED <<raw_job, podVars, createVars>>

\* PollSleep without the sleep after the last attempt of the budget.
PollSleepSkipLast ==
    /\ pc = "sleep"
    /\ sleeps' = sleeps + (IF remaining = 1 THEN 0 ELSE 1)
    /\ slept' = slept + (IF remaining = 1 THEN 0 ELSE polling_interval)
    /\ remaining' = remaining - 1
    /\ pc' = LoopHead(remaining - 1)
    /\ UNCHANGED <<op, timeout_seconds, polling_interval, expected_condition,
                   status_callback, watch, paddlejob, prev_job, gets, ok_gets,
                   truthy_gets, callbacks, callback_arg, callback_ret, outcome>>
    /\ UNCHANGED <<raw_job, podVars, createVars>>

\* time.sleep(polling_interval), then the head of the loop.
PollSleep ==
    /\ pc = "sleep"
    /\ sleeps' = sleeps + 1
    /\ slept' = slept + polling_interval
    /\ remaining' = remaining - 1
    /\ pc' = LoopHead(remaining - 1)
    /\ UNCHANGED <<op, timeout_seconds, polling_interval, expected_condition,
                   status_callback, watch, paddlejob, prev_job, gets, ok_gets,
                   truthy_gets, callbacks, callback_arg, callback_ret, outcome>>
    /\ UNCHANGED <<raw_job, podVars, createVars>>

\* raise RuntimeError("Timeout waiting for PaddleJob ...", paddlejob)
RaiseTimeout ==
    /\ pc = "raise"
    /\ outcome' = TimeoutError(paddlejob)
    /\ pc' = "exhausted"
    /\ UNCHANGED <<op, waitVars>>
    /\ UNCHANGED <<raw_job, podVars, createVars>>

\* get_job_status(name, namespace): one Get, then the last condition.
CallGetJobStatus ==
    /\ op = "idle"
    /\ op' = "get_job_status"
    /\ \E raw \in RawResults :
          /\ raw_job' = raw
          /\ outcome' = GetJobStatus(raw)
    /\ pc' = "status_done"
    /\ UNCHANGED <<waitVars, podVars, createVars>>

\* get_pod_names(name, namespace, master, replica_type, replica_index)
CallGetPodNames ==
    /\ op = "idle"
    /\ op' = "get_pod_names"
    /\ \E l \in ListResults :
          /\ listing' = l
          /\ outcome' = GetPodNames(l)
          /\ warnings' = warnings + Warned(l)
    /\ pc' = "names_done"
    /\ UNCHANGED <<raw_job, waitVars, pod_names, unread, reads, emitted, read_result,
                   createVars>>

\* What get_logs does with the value get_pod_names returned: the error of
\* get_pod_names passes through, no names raise, names start the loop.
AfterPodNames(names) ==
    IF names.kind = "raise" THEN [pc |-> "list_failed", outcome |-> names]
    ELSE IF names.isNone \/ names.names = {}
    THEN [pc |-> "no_pods", outcome |-> NoPodsError]
    ELSE [pc |-> "read", outcome |-> Pending]

\* get_logs(name, namespace, master, replica_type, replica_index, follow,
\* container) up to its loop: pod_names = self.get_pod_names(...)
CallGetLogs ==
    /\ op = "idle"
    /\ op' = "get_logs"
    /\ \E l \in ListResults :
          /\ listing' = l
          /\ warnings' = warnings + Warned(l)
          /\ pod_names' = GetPodNames(l).names
          /\ unread' = GetPodNames(l).names
          /\ pc' = AfterPodNames(GetPodNames(l)).pc
          /\ outcome' = AfterPodNames(GetPodNames(l)).outcome
    /\ UNCHANGED <<raw_job, waitVars, reads, emitted, read_result, createVars>>

\* ReadStep going on to the next pod after an ApiException.
ReadStepBestEffort(pod, res, left) ==
    IF left = {pod}
    THEN [pc |-> IF res = "ApiException" THEN "read_failed" ELSE "logs_done",
          outcome |-> IF res = "ApiException" THEN ReadError ELSE ReturnNone,
          emit |-> IF res = "ApiException" THEN <<>> ELSE <<pod>>]
    ELSE [pc |-> "read", outcome |-> Pending,
          emit |-> IF res = "ApiException" THEN <<>> ELSE <<pod>>]

\* What one iteration of the loop of get_logs leaves, given the result res
\* of read_namespaced_pod_log for pod: the log is written to the logger as
\* soon as it is read; an ApiException ends the call.
ReadStep(pod, res, left) ==
    IF res = "ApiException"
    THEN [pc |-> "read_failed", outcome |-> ReadError, emit |-> <<>>]
    ELSE IF left = {pod}
    THEN [pc |-> "logs_done", outcome |-> ReturnNone, emit |-> <<pod>>]
    ELSE [pc |-> "read", outcome |-> Pending, emit |-> <<pod>>]

\* for pod in pod_names: one iteration; a set is iterated in no stated order.
ReadPodLog ==
    /\ pc = "read"
    /\ \E pod \in unread, res \in ReadResults :
          /\ reads' = Append(reads, pod)
          /\ read_result' = res
          /\ unread' = unread \ {pod}
          /\ emitted' = emitted \o ReadStep(pod, res, unread).emit
          /\ pc' = ReadStep(pod, res, unread).pc
          /\ outcome' = ReadStep(pod, res, unread).outcome
    /\ UNCHANGED <<op, raw_job, waitVars, listing, pod_names, warnings, createVars>>

\* create_paddlejob_from_func(name, func, ..., num_worker_replicas, ...)
CallCreateFromFunc ==
    /\ op = "idle"
    /\ op' = "create_paddlejob_from_func"
    /\ pc' = "create_done"
    /\ \E r \in ReplicaArgs, isCallable \in BOOLEAN, res \in CreateResults :
          /\ num_worker_replicas' = r
          /\ IF r.isNone
             THEN /\ outcome' = Raise("ValueError",
                          "At least one Worker replica for PaddleJob must be set")
                  /\ UNCHANGED <<paddle_replica_specs, submitted>>
             ELSE IF ~isCallable
             THEN /\ outcome' = Raise("ValueError", "Training function must be callable")
                  /\ UNCHANGED <<paddle_replica_specs, submitted>>
             ELSE /\ paddle_replica_specs' = ReplicaSpecs(r.n)
                  /\ submitted' = submitted + 1
                  /\ outcome' = Create(res)
    /\ UNCHANGED <<raw_job, waitVars, podVars>>

Next ==
    \/ CallWaitForCondition
    \/ CallWaitForJob
    \/ PollGet
    \/ PollCallback
    \/ PollInspect
    \/ PollSleep
    \/ RaiseTimeout
    \/ CallGetJobStatus
    \/ CallGetPodNames
    \/ CallGetLogs
    \/ ReadPodLog
    \/ CallCreateFromFunc

Spec == Init /\ [][Next]_vars

\* ================================================================ claims
InWait == op \in {"wait_for_condition", "wait_for_job"} /\ ~watch

\* The Get response holds a condition whose type is one of the expected.
HasExpected(job, expected) ==
    /\ job.tag = "dict"
    /\ job.conditions = "list"
    /\ \E k \in DOMAIN job.items :
          job.items[k].hasType /\ job.items[k].type \in expected

\* The Get response has no conditions at all: missing, null or empty.
HasNoConditions(job) ==
    job.tag = "dict" /\ job.keys /\ (job.conditions # "list" \/ job.items = <<>>)

AbsDiff(a, b) == IF a >= b THEN a - b ELSE b - a

TimeoutMessage == "Timeout waiting for PaddleJob"

\* C1: wait_for_condition returns the fetched job at the first poll whose
\* Get response holds a condition of an expected type, whatever the earlier
\* responses without such a condition were: the loop never goes on to sleep
\* or to another Get with such a response in hand, the call returns that very
\* response, every earlier poll was followed by exactly one sleep and the
\* matching one by none, and nothing happens after the return.
C1_ReturnsAtFirstMatch ==
    /\ [](InWait /\ raw_job.tag = "ok" /\ HasExpected(raw_job.job, expected_condition)
            => /\ pc \in {"callback", "inspect", "returned"}
               /\ paddlejob = raw_job.job
               /\ sleeps = gets - 1
               /\ (pc = "returned" => outcome = ReturnJob(raw_job.job)))
    /\ [](InWait /\ pc = "returned"
            => HasExpected(raw_job.job, expected_condition))
    /\ [][InWait /\ raw_job.tag = "ok" /\ HasExpected(raw_job.job, expected_condition)
            => /\ gets' = gets
               /\ sleeps' = sleeps
               /\ pc # "returned"
               /\ pc' \in {"inspect", "returned"}]_vars

\* C1 witness: a return on the third poll or later, right after a poll that
\* answered with null conditions.
C1_Witness ==
    /\ op = "wait_for_condition"
    /\ pc = "returned"
    /\ gets >= 3
    /\ prev_job = NullConditions
    /\ outcome = ReturnJob(JobWith(<<Cond("Running"), Cond("Succeeded")>>))

\* C2 (as stated): with no match and no failed Get the loop issues exactly
\* max(1, floor(timeout_seconds / polling_interval)) Gets and then fails with
\* the wait-timeout error.
C2_FloorAtLeastOne ==
    InWait /\ pc = "exhausted"
        => /\ gets = (IF timeout_seconds \div polling_interval >= 1
                      THEN timeout_seconds \div polling_interval ELSE 1)
           /\ outcome.kind = "raise"
           /\ outcome.exc = "RuntimeError"
           /\ outcome.msg = TimeoutMessage

\* C2 (amended): with no match and no failed Get the loop issues exactly
\* round(timeout_seconds / polling_interval) Gets, the nearest integer with a
\* tie going to the even one (so possibly none), one sleep after each; after
\* at least one Get the failure is the wait-timeout error, after none it is
\* the unbound local variable of the raise statement.
C2_RoundedAttempts ==
    InWait /\ pc = "exhausted"
        => /\ 2 * AbsDiff(gets * polling_interval, timeout_seconds) <= polling_interval
           /\ (2 * AbsDiff(gets * polling_interval, timeout_seconds) = polling_interval
                  => gets % 2 = 0)
           /\ ok_gets = gets
           /\ sleeps = gets
           /\ slept = gets * polling_interval
           /\ outcome.kind = "raise"
           /\ (gets >= 1 => outcome.exc = "RuntimeError" /\ outcome.msg = TimeoutMessage)
           /\ (gets = 0 => outcome.exc = "UnboundLocalError")

\* C2 witness: timeout 3 and interval 2, ratio 1.5: two Gets, not one.
C2_Witness ==
    /\ op = "wait_for_condition"
    /\ pc = "exhausted"
    /\ timeout_seconds = 3
    /\ polling_interval = 2
    /\ gets = 2

\* C3: a Get of the loop that fails ends wait_for_condition at once with the
\* error of that Get: no callback for that attempt, no sleep after it, no
\* later Get or any other step, and the error is not the wait-timeout error
\* (another message, and no job object attached).
C3_GetErrorIsFatal ==
    /\ [](InWait /\ raw_job.tag \in GetFailures
            => /\ pc = "get_failed"
               /\ outcome.kind = "raise"
               /\ outcome.exc = "RuntimeError"
               /\ outcome.msg # TimeoutMessage
               /\ outcome.obj = <<>>
               /\ sleeps = gets - 1
               /\ ok_gets = gets - 1
               /\ truthy_gets <= gets - 1
               /\ callbacks = (IF status_callback THEN truthy_gets ELSE 0))
    /\ [][~(InWait /\ raw_job.tag \in GetFailures)]_vars

\* C3 witness: the third Get of a wait with a callback times out in transport.
C3_Witness ==
    /\ op = "wait_for_condition"
    /\ status_callback
    /\ raw_job.tag = "multiprocessing.TimeoutError"
    /\ gets = 3
    /\ callbacks = 2
    /\ outcome = Raise("RuntimeError", "Timeout trying to get PaddleJob.")

\* C4: get_job_status returns the type of the last entry of
\* status.conditions when there is one (the empty string for an entry
\* without a type), and in the four cases without one (status absent,
\* conditions absent, conditions null, conditions empty) it raises: an
\* IndexError, or a TypeError for null, neither of them the RuntimeError of
\* a failed Get, and never a returned string.
C4_LastConditionOrError ==
    op = "get_job_status" /\ raw_job.tag = "ok" /\ raw_job.job.tag = "dict"
        => LET job == raw_job.job
               n == Len(job.items)
           IN  /\ (job.conditions = "list" /\ n > 0
                     => /\ outcome.kind = "return"
                        /\ outcome.str = (IF job.items[n].hasType
                                          THEN job.items[n].type ELSE ""))
               /\ (job.conditions # "list" \/ n = 0
                     => /\ outcome.kind = "raise"
                        /\ outcome.exc \in {"IndexError", "TypeError"}
                        /\ (outcome.exc = "TypeError" <=> job.conditions = "null")
                        /\ outcome.str = "")

\* C4 witness: get_job_status on a job whose conditions are null raises.
C4_Witness ==
    /\ op = "get_job_status"
    /\ raw_job.job = NullConditions
    /\ outcome.kind = "raise"
    /\ outcome.exc = "TypeError"

\* C4, the other case: conditions <<Succeeded, Running>> give "Running".
C4_LastEntryReached ==
    /\ op = "get_job_status"
    /\ raw_job.job = JobWith(<<Cond("Succeeded"), Cond("Running")>>)
    /\ outcome = ReturnStr("Running")

\* C5 (as stated): an exhausted attempt budget always ends in the
\* wait-timeout error, which carries the object of the last Get, and no
\* object when no Get was made (a budget of zero iterations).
C5_TimeoutCarriesLastObject ==
    InWait /\ pc = "exhausted"
        => /\ outcome.kind = "raise"
           /\ outcome.exc = "RuntimeError"
           /\ outcome.msg = TimeoutMessage
           /\ outcome.obj = (IF gets = 0 THEN <<>> ELSE <<raw_job.job>>)

\* C6 (as stated): when the log read of the k-th pod fails, get_logs fails at
\* once with that error, reads no later pod, and has neither returned nor
\* emitted any log of the pods before the k-th.
C6_NoPartialOutput ==
    op = "get_logs" /\ read_result = "ApiException"
        => /\ pc = "read_failed"
           /\ outcome = ReadError
           /\ emitted = <<>>

\* C6 (amended): when the log read of the k-th pod fails, get_logs fails at
\* once with that error, reads no later pod and returns nothing; the logs
\* of the k-1 pods read before it have already been written to the logger,
\* each right after its read.
C6_FailFast ==
    /\ [](op = "get_logs" /\ read_result = "ApiException"
            => /\ pc = "read_failed"
               /\ outcome.kind = "raise"
               /\ outcome.exc = "RuntimeError"
               /\ outcome.names = {}
               /\ Len(reads) = Len(emitted) + 1
               /\ emitted = SubSeq(reads, 1, Len(reads) - 1))
    /\ [](op = "get_logs" /\ pc = "read" => emitted = reads)
    /\ [][~(op = "get_logs" /\ read_result = "ApiException")]_vars

\* C6 witness: three pods, the read of the second fails.
C6_Witness ==
    /\ op = "get_logs"
    /\ Cardinality(pod_names) = 3
    /\ pc = "read_failed"
    /\ Len(reads) = 2
    /\ Len(emitted) = 1
    /\ Cardinality(unread) = 1

\* C7 (as stated): every job submitted has "Master" with one replica, and
\* has "Worker" (with num_worker_replicas replicas) exactly when
\* num_worker_replicas is more than one.
C7_WorkerIffMoreThanOne ==
    op = "create_paddlejob_from_func" /\ submitted > 0
        => /\ "Master" \in DOMAIN paddle_replica_specs
           /\ paddle_replica_specs["Master"] = 1
           /\ ("Worker" \in DOMAIN paddle_replica_specs <=> num_worker_replicas.n > 1)
           /\ ("Worker" \in DOMAIN paddle_replica_specs
                 => paddle_replica_specs["Worker"] = num_worker_replicas.n)

\* The responses with a condition that ends a job.
IsFinished(job) == HasExpected(job, {"Succeeded", "Failed"})

\* C8: wait_for_job without watch is wait_for_condition for "Succeeded" and
\* "Failed": it polls with exactly that expected set, returns exactly on
\* the first response with a "Succeeded" or "Failed" condition and returns
\* that response, goes on (sleeps) only on responses with neither, and gives
\* up after the same number of Gets.
C8_WaitForJobIsWaitForCondition ==
    op = "wait_for_job" /\ ~watch
        => /\ expected_condition = {"Succeeded", "Failed"}
           /\ (pc = "returned"
                 => /\ outcome.kind = "return"
                    /\ outcome.obj = <<raw_job.job>>
                    /\ IsFinished(raw_job.job))
           /\ (pc \in {"sleep", "exhausted"} => ~IsFinished(raw_job.job))
           /\ (raw_job.tag = "ok" /\ IsFinished(raw_job.job)
                 => pc \in {"callback", "inspect", "returned"})
           /\ (pc = "exhausted" => remaining = 0 /\ sleeps = gets)
           /\ remaining + sleeps = Attempts(timeout_seconds, polling_interval)

\* C8 witness: wait_for_job returns a failed job after a running one.
C8_Witness ==
    /\ op = "wait_for_job"
    /\ pc = "returned"
    /\ prev_job = JobWith(<<Cond("Created"), Cond("Running")>>)
    /\ outcome = ReturnJob(JobWith(<<Cond("Running"), Cond("Failed")>>))

WaitEnded == pc \in {"returned", "exhausted", "get_failed"}

\* C9 (as stated): with a callback supplied, the callback has been invoked
\* once for every successful Get when the wait ends.
C9_CallbackPerSuccessfulGet ==
    InWait /\ status_callback /\ WaitEnded => callbacks = ok_gets

\* C9 (amended): with a callback supplied, the callback is invoked exactly
\* once after each successful Get that returned a non-empty object (not
\* after a Get that returned None or an empty mapping), with that object,
\* before its conditions are inspected, so also on the poll that matches
\* and returns; its return value changes nothing: the inspection of the same
\* object follows whatever it returned.
C9_CallbackPerObject ==
    /\ [](InWait /\ status_callback
            => /\ callbacks = truthy_gets - (IF pc = "callback" THEN 1 ELSE 0)
               /\ (pc = "callback" => raw_job.tag = "ok" /\ paddlejob = raw_job.job)
               /\ (pc = "inspect" => callback_arg = paddlejob)
               /\ (pc = "returned" => outcome.obj = <<callback_arg>>)
               /\ (callbacks > 0 /\ pc # "callback" /\ raw_job.tag = "ok"
                     /\ Truthy(raw_job.job) => callback_arg = raw_job.job))
    /\ [](InWait /\ ~status_callback => callbacks = 0)
    /\ [][pc = "callback"
            => /\ pc' = "inspect"
               /\ callbacks' = callbacks + 1
               /\ paddlejob' = paddlejob
               /\ outcome' = outcome
               /\ gets' = gets]_vars

\* C9 witness: a return on the third poll, the callback having returned
\* False on it, after three invocations.
C9_Witness ==
    /\ op = "wait_for_condition"
    /\ status_callback
    /\ pc = "returned"
    /\ callbacks = 3
    /\ callback_ret = "False"
    /\ gets = 3

\* The names of the pods of a pod list.
NamesIn(items) == {items[k].name : k \in DOMAIN items} \ {""}

\* C10: when the pod listing succeeds, get_pod_names returns: no value (and
\* one warning) when no pod has a name, which is neither an error nor a
\* set, and the set of the names otherwise; get_logs on a listing without
\* names fails with the no-pods error and reads no pod log.
C10_EmptyIsNotAnError ==
    /\ (op = "get_pod_names" /\ listing.tag = "ok"
          => /\ outcome.kind = "return"
             /\ (NamesIn(listing.items) = {}
                   => outcome.isNone /\ outcome.names = {} /\ warnings = 1)
             /\ (NamesIn(listing.items) # {}
                   => /\ ~outcome.isNone
                      /\ outcome.names = NamesIn(listing.items)
                      /\ warnings = 0))
    /\ (op = "get_pod_names" /\ listing.tag = "ApiException"
          => outcome.kind = "raise")
    /\ (op = "get_logs" /\ listing.tag = "ok" /\ NamesIn(listing.items) = {}
          => /\ pc = "no_pods"
             /\ outcome = NoPodsError
             /\ reads = <<>>
             /\ emitted = <<>>)

\* C10 witness: get_logs on a listing of pods of which none has a name.
C10_Witness ==
    /\ op = "get_logs"
    /\ listing.tag = "ok"
    /\ Len(listing.items) = 2
    /\ pc = "no_pods"
    /\ outcome = NoPodsError

\* C11: in wait_for_condition every poll without a match, the last one of
\* the budget included, is followed by one sleep of polling_interval before
\* anything else happens: the raise after the loop is reached only from that
\* sleep, so a wait that times out after N Gets has slept N times, and a
\* wait that returns on its k-th Get has slept k-1 times.
C11_SleepAfterEveryMiss ==
    /\ [](InWait
            => /\ (pc = "returned"
                     => sleeps = gets - 1 /\ slept = (gets - 1) * polling_interval)
               /\ (pc \in {"raise", "exhausted"}
                     => /\ remaining = 0
                        /\ sleeps = gets
                        /\ slept = gets * polling_interval)
               /\ (pc = "sleep"
                     => /\ sleeps = gets - 1
                        /\ raw_job.tag = "ok"
                        /\ ~HasExpected(raw_job.job, expected_condition))
               /\ (pc = "get" => sleeps = gets))
    /\ [][InWait /\ pc = "sleep"
            => /\ sleeps' = sleeps + 1
               /\ slept' = slept + polling_interval
               /\ gets' = gets
               /\ outcome' = outcome]_vars
    /\ [][InWait /\ pc' = "exhausted" => pc = "raise"]_vars
    /\ [][InWait /\ pc' = "raise" /\ gets > 0 => pc = "sleep"]_vars

\* C11 witness: a wait-timeout error after three Gets and three sleeps of
\* one second each.
C11_Witness ==
    /\ op = "wait_for_condition"
    /\ pc = "exhausted"
    /\ outcome.exc = "RuntimeError"
    /\ outcome.msg = TimeoutMessage
    /\ polling_interval = 1
    /\ gets = 3
    /\ sleeps = 3
    /\ slept = 3

\* C11, the other case: a return on the third Get after two sleeps.
C11_MatchReached ==
    /\ op = "wait_for_condition"
    /\ pc = "returned"
    /\ gets = 3
    /\ sleeps = 2

====
